---- MODULE Spec2Model ----
(***************************************************************************)
(* Model of the Anki Generator front-end (src/src/App.tsx): the React      *)
(* state of App, the event handlers bound to its controls, and the         *)
(* asynchronous continuation of handleGenerate after the call to the       *)
(* text-generation service.  One action is one event handler run to its    *)
(* end (React batches the handler's state updates into one render) or the  *)
(* continuation of one awaited call.                                       *)
(*                                                                         *)
(* A JavaScript string that is inspected by the code (the reply, the       *)
(* source text, the revision instruction) is a sequence of tokens.         *)
(*                                                                         *)
(* Left out: slideDirection, which only picks the direction of the card    *)
(* animation, and the styling and animation of the page.                   *)
(***************************************************************************)
EXTENDS Integers, Sequences, FiniteSets, TLC

(***************************************************************************)
(* Bounds of the model.                                                    *)
(***************************************************************************)
\* Longest card array a reply of the service holds.
MaxCards == 2

(***************************************************************************)
(* Tokens and text.                                                        *)
(***************************************************************************)
\* The value of a property that is not there (JavaScript undefined) and the
\* value null, where the code stores one of them in a string-typed place.
Undefined == "undefined"
Null == "null"

\* Flashcard records (type Card, all three fields optional).
BasicCard == [front |-> "Q1", back |-> "A1", text |-> Undefined]
ClozeCard == [front |-> Undefined, back |-> Undefined, text |-> "T1"]
CardValues == {BasicCard, ClozeCard}

RECURSIVE SeqsUpTo(_, _)
SeqsUpTo(S, n) ==
  IF n = 0 THEN {<<>>}
  ELSE LET shorter == SeqsUpTo(S, n - 1)
       IN  shorter \cup {Append(s, x) : s \in {t \in shorter : Len(t) = n - 1}, x \in S}

\* The card arrays a reply holds: up to MaxCards cards, neighbours different.
CardArrays ==
  {s \in SeqsUpTo(CardValues, MaxCards) : \A i \in 1..(Len(s) - 1) : s[i] # s[i + 1]}

\* A parsed JSON value, as far as handleGenerate looks at it: its kind and
\* its "cards" property (absent, an array, or some other value).
JsonValue(kind, cardsTag, items) == [kind |-> kind, cardsTag |-> cardsTag, items |-> items]
NoJson == JsonValue("none", "absent", <<>>)
JsonCards(items) == JsonValue("object", "array", items)   \* {"cards": [...]}
JsonNotCards == JsonValue("object", "absent", <<>>)       \* {"notcards": []}
JsonCardsOther == JsonValue("object", "other", <<>>)      \* {"cards": "x"}
JsonCardsFalsy == JsonValue("object", "falsy", <<>>)      \* {"cards": null}
JsonArray == JsonValue("array", "absent", <<>>)           \* [ ... ]
JsonNull == JsonValue("null", "absent", <<>>)             \* null
JsonNumber == JsonValue("number", "absent", <<>>)         \* 42

\* Tokens of a text: the fence marker (three backticks), a newline, a blank, a word, and
\* the serialisation of one JSON value.
Tok(t, c, v) == [t |-> t, c |-> c, v |-> v]
FENCE == Tok("fence", "", NoJson)
NL == Tok("nl", "", NoJson)
SP == Tok("sp", " ", NoJson)
Word(w) == Tok("word", w, NoJson)
Body(v) == Tok("json", "", v)

IsWhitespace(tok) == tok.t \in {"nl", "sp"}

\* String.prototype.trim
RECURSIVE TrimLeft(_)
TrimLeft(s) ==
  IF s # <<>> /\ IsWhitespace(Head(s)) THEN TrimLeft(Tail(s)) ELSE s

RECURSIVE TrimRight(_)
TrimRight(s) ==
  IF s # <<>> /\ IsWhitespace(s[Len(s)]) THEN TrimRight(SubSeq(s, 1, Len(s) - 1)) ELSE s

Trim(s) == TrimRight(TrimLeft(s))

(***************************************************************************)
(* The reply: fence stripping and JSON parsing (handleGenerate, the part   *)
(* after the awaited call).                                                *)
(***************************************************************************)
Min(S) == CHOOSE x \in S : \A y \in S : x <= y
Max(S) == CHOOSE x \in S : \A y \in S : x >= y

NoMatch == [matched |-> FALSE, group1 |-> <<>>]

\* Mutant: the pattern with the json tag never matches.
MatchJsonFence_Never(s) == NoMatch

\* response.match(/(fence)json\n([\s\S]*)\n(fence)/): the leftmost place where
\* a fence, the word json and a newline stand together and a newline followed
\* by a fence comes later; the group is greedy, so it runs to the last such
\* closing newline.
MatchJsonFence(s) ==
  LET closes(i) == {j \in (i + 3)..(Len(s) - 1) : s[j] = NL /\ s[j + 1] = FENCE}
      starts == {i \in 1..(Len(s) - 4) :
                   /\ s[i] = FENCE /\ s[i + 1] = Word("json") /\ s[i + 2] = NL
                   /\ closes(i) # {}}
  IN  IF starts = {} THEN NoMatch
      ELSE LET i == Min(starts)
               j == Max(closes(i))
           IN  [matched |-> TRUE, group1 |-> SubSeq(s, i + 3, j - 1)]

\* response.match(/(fence)([\s\S]*)(fence)/): from the first fence to the last.
MatchAnyFence(s) ==
  LET fences == {i \in 1..Len(s) : s[i] = FENCE}
  IN  IF Cardinality(fences) < 2 THEN NoMatch
      ELSE [matched |-> TRUE, group1 |-> SubSeq(s, Min(fences) + 1, Max(fences) - 1)]

\* const jsonMatch = response.match(A) || response.match(B);
\* const jsonStr = jsonMatch ? jsonMatch[1] : response;
JsonStr(response) ==
  LET first == MatchJsonFence(response)
      jsonMatch == IF first.matched THEN first ELSE MatchAnyFence(response)
  IN  IF jsonMatch.matched THEN jsonMatch.group1 ELSE response

\* JSON.parse: the text is one JSON value, with JSON whitespace around it
\* allowed; anything else is a SyntaxError.
JSONparse(s) ==
  LET t == Trim(s)
  IN  IF Len(t) = 1 /\ t[1].t = "json"
      THEN [ok |-> TRUE, value |-> t[1].v]
      ELSE [ok |-> FALSE, value |-> NoJson]

\* Mutant: the TypeError of reading .cards of null counts as a parse failure.
ExtractCards_NullIsParseError(response) ==
  LET parsed == JSONparse(Trim(JsonStr(response)))
      data == parsed.value
  IN  IF ~parsed.ok \/ data.kind = "null" THEN [outcome |-> "ParseError", cards |-> <<>>]
      ELSE IF data.cardsTag # "array" THEN [outcome |-> "SchemaError", cards |-> <<>>]
      ELSE [outcome |-> "success", cards |-> data.items]

\* The inner try block: parse, check the container, or throw.  "ParseError"
\* is JSON.parse throwing; "SchemaError" is the explicit throw of "Invalid
\* response format" or the TypeError of reading .cards of null.
ExtractCards(response) ==
  LET parsed == JSONparse(Trim(JsonStr(response)))
      data == parsed.value
  IN  IF ~parsed.ok THEN [outcome |-> "ParseError", cards |-> <<>>]
      ELSE IF data.kind = "null" THEN [outcome |-> "SchemaError", cards |-> <<>>]
      ELSE IF data.cardsTag \in {"absent", "falsy"} \/ data.cardsTag # "array"
           THEN [outcome |-> "SchemaError", cards |-> <<>>]
      ELSE [outcome |-> "success", cards |-> data.items]

\* No reply has been parsed yet.
NotExtracted == [outcome |-> "none", cards |-> <<>>]

(***************************************************************************)
(* The prompt (generatePrompt): the template as a sequence of sections.    *)
(***************************************************************************)
Section(name, text, n) == [sec |-> name, text |-> text, n |-> n]
Fixed(name) == Section(name, <<>>, 0)

\* An optional string argument: present with a text, or undefined.
Some(text) == [present |-> TRUE, text |-> text]
None == [present |-> FALSE, text |-> <<>>]
\* JavaScript truthiness of an optional string: there and not empty.
Truthy(opt) == opt.present /\ opt.text # <<>>

\* Mutant: the exact-count instruction always asks for five cards.
CountInstruction_AlwaysFive(auto, count) ==
  IF auto THEN Fixed("COUNT_AUTO") ELSE Section("COUNT_EXACT", <<>>, 5)

CountInstruction(auto, count) ==
  IF auto THEN Fixed("COUNT_AUTO") ELSE Section("COUNT_EXACT", <<>>, count)

CardTypeInstructions(type) ==
  IF type = "basic" THEN Fixed("FORMAT_BASIC") ELSE Fixed("FORMAT_CLOZE")

\* Mutant: the schema example is the Basic one for either kind.
SchemaExample_AlwaysBasic(type) == Fixed("SCHEMA_BASIC")

SchemaExample(type) ==
  IF type = "basic" THEN Fixed("SCHEMA_BASIC") ELSE Fixed("SCHEMA_CLOZE")

\* The keys of the example objects the text of a section holds: the object
\* inside "cards": [...] of the schema, and the Example line of the card
\* format; the other sections hold no example object.
ExampleKeys(sec) ==
  CASE sec \in {"SCHEMA_BASIC", "FORMAT_BASIC"} -> {"front", "back"}
    [] sec \in {"SCHEMA_CLOZE", "FORMAT_CLOZE"} -> {"text"}
    [] OTHER -> {}

ModificationsSection(changes) ==
  IF Truthy(changes)
  THEN << Fixed("MODIFICATIONS_HEADER"),
          Section("MODIFICATIONS", changes.text, 0),
          Fixed("MODIFICATIONS_GUIDE") >>
  ELSE <<>>

\* Mutant: the modifications section stands after the count instruction.
GeneratePrompt_ChangesAfterCount(text, type, changes, auto, count) ==
     << Fixed("ROLE"), Fixed("TASK"),
        Fixed("OUTPUT_FORMAT"), SchemaExample(type), CardTypeInstructions(type),
        Fixed("RULES_HEADER"), CountInstruction(auto, count) >>
  \o ModificationsSection(changes)
  \o << Fixed("RULE_LANGUAGE"), Fixed("RULE_QUALITY"), Fixed("RULE_HTML"),
        Fixed("RULE_CONTENT"),
        Fixed("SOURCE_HEADER"), Section("SOURCE", text, 0) >>

\* generatePrompt(text, type, changes); auto and count are the autoCardCount
\* and cardCountInput the function reads from the component's state.
GeneratePrompt(text, type, changes, auto, count) ==
     << Fixed("ROLE"), Fixed("TASK") >>
  \o ModificationsSection(changes)
  \o << Fixed("OUTPUT_FORMAT"), SchemaExample(type), CardTypeInstructions(type),
        Fixed("RULES_HEADER"), CountInstruction(auto, count),
        Fixed("RULE_LANGUAGE"), Fixed("RULE_QUALITY"), Fixed("RULE_HTML"),
        Fixed("RULE_CONTENT"),
        Fixed("SOURCE_HEADER"), Section("SOURCE", text, 0) >>

(***************************************************************************)
(* Inputs the user and the service can supply.                             *)
(***************************************************************************)
\* Source texts and revision instructions the user types.
Texts == {<<>>, <<Word("a")>>}
Changes == {<<>>, <<Word("harder")>>}
\* Credentials the user types into the settings modal.
ApiKeys == {"", "k1"}
\* Positions of the temperature slider (min 0, max 1, step 0.1), in tenths.
TemperatureValues == {3, 7}
\* Positions of the count slider (min 1, max 50).
CardCounts == {5}
CardTypes == {"basic", "cloze"}

\* Replies of the service: a JSON value bare, in a fence tagged json, in a
\* fence without tag; prose; nothing at all (result.text undefined).
Bare(b) == <<Body(b)>>
FencedJson(b) == <<FENCE, Word("json"), NL, Body(b), NL, FENCE>>
Fenced(b) == <<FENCE, NL, Body(b), NL, FENCE>>
Prose == <<Word("not"), SP, Word("json")>>
ReplyBodies ==
  {JsonCards(c) : c \in CardArrays} \cup {JsonNotCards, JsonCardsOther, JsonNull, JsonArray}
Replies ==
     {Bare(b) : b \in ReplyBodies}
  \cup {FencedJson(JsonCards(<<BasicCard>>)), Fenced(JsonCards(<<ClozeCard>>)),
        FencedJson(JsonNotCards), Prose, <<>>}

\* How the awaited ai.models.generateContent call settles: it resolves with a
\* text, rejects with an Error carrying a message, or rejects with a value
\* that is no Error.
Settlement(kind, message, text) == [kind |-> kind, message |-> message, text |-> text]
TransportMessages == {"fetch failed"}
Settlements ==
     {Settlement("resolve", "", r) : r \in Replies}
  \cup {Settlement("rejectError", m, <<>>) : m \in TransportMessages}
  \cup {Settlement("rejectOther", "", <<>>)}

\* The messages setError is called with.
MissingKeyMessage == "Please set your Gemini API key in settings first"
ParseFailedMessage == "Failed to parse AI response"
GenerateFailedMessage == "Failed to generate cards"

(***************************************************************************)
(* The settings store: localStorage holds strings.                         *)
(***************************************************************************)
DefaultTemperature == 3
DefaultCardCount == 5

\* Number.prototype.toString and parseFloat on the slider's values: 0 -> "0",
\* 0.1 -> "0.1", ..., 1 -> "1".
TenthStrings == <<"0", "0.1", "0.2", "0.3", "0.4", "0.5", "0.6", "0.7", "0.8", "0.9", "1">>
NumberToString(v) == TenthStrings[v + 1]
ParseFloat(str) == CHOOSE v \in 0..10 : TenthStrings[v + 1] = str

\* What localStorage can hold at startup: nothing, or what an earlier session
\* of the program wrote.
StoredKeys == {Null} \cup ApiKeys
StoredTemperatures == {Null} \cup {NumberToString(v) : v \in TemperatureValues}

(***************************************************************************)
(* State.                                                                  *)
(***************************************************************************)
VARIABLES
  cardType,          \* useState<CardType>("basic")
  inputText,         \* useState("")
  suggestedChanges,  \* useState("")
  generatedCards,    \* useState<Card[]>([])
  currentCardIndex,  \* useState(0)
  appState,          \* useState<AppState>("initial")
  cardCountInput,    \* useState<number>(5)
  autoCardCount,     \* useState(false)
  showSettings,      \* useState(false)
  apiKey,            \* useState(() => localStorage.getItem("geminiApiKey") || "")
  temperature,       \* useState(() => saved ? parseFloat(saved) : 0.3)
  isGenerating,      \* useState(false)
  error,             \* useState<string | null>(null)
  localStorage,      \* the browser's key-value store, keys geminiApiKey and temperature
  pending,           \* the calls to ai.models.generateContent that have not settled
  rawResponse,       \* const response = result.text ?? "", the reply being parsed
  extracted,         \* what the inner try block of handleGenerate made of it
  prompts,           \* the prompts generatePrompt has returned, with their arguments
  csv                \* let csv, the document downloadCSV hands to the Blob

vars == << cardType, inputText, suggestedChanges, generatedCards, currentCardIndex,
           appState, cardCountInput, autoCardCount, showSettings,
           apiKey, temperature, isGenerating, error, localStorage, pending,
           rawResponse, extracted, prompts, csv >>

\* The state variables by group, for UNCHANGED.
cardVars == << generatedCards, currentCardIndex, appState >>
inputVars == << cardType, inputText, suggestedChanges, cardCountInput, autoCardCount >>
settingsVars == << showSettings, apiKey, temperature, localStorage >>
requestVars == << isGenerating, error, pending >>
\* The values local to one function; the specifications of the single
\* functions (ParseSpec, PromptSpec, ExportSpec) follow them, the
\* specification of the application leaves them alone.
localVars == << rawResponse, extracted, prompts, csv >>

Init ==
  /\ cardType = "basic"
  /\ inputText = <<>>
  /\ suggestedChanges = <<>>
  /\ generatedCards = <<>>
  /\ currentCardIndex = 0
  /\ appState = "initial"
  /\ cardCountInput = DefaultCardCount
  /\ autoCardCount = FALSE
  /\ showSettings = FALSE
  /\ localStorage \in [geminiApiKey : StoredKeys, temperature : StoredTemperatures]
  /\ apiKey = IF localStorage.geminiApiKey \in {Null, ""} THEN "" ELSE localStorage.geminiApiKey
  /\ temperature = IF localStorage.temperature \in {Null, ""}
                   THEN DefaultTemperature
                   ELSE ParseFloat(localStorage.temperature)
  /\ isGenerating = FALSE
  /\ error = Null
  /\ pending = <<>>
  /\ rawResponse = <<>>
  /\ extracted = NotExtracted
  /\ prompts = <<>>
  /\ csv = <<>>

(***************************************************************************)
(* Settings.                                                               *)
(***************************************************************************)
\* The gear button of the header: onClick={() => setShowSettings(true)}.
OpenSettings ==
  /\ showSettings' = TRUE
  /\ UNCHANGED << apiKey, temperature, localStorage >>
  /\ UNCHANGED << cardVars, inputVars, requestVars >>
  /\ UNCHANGED localVars

\* The backdrop and the X button of the modal: setShowSettings(false).
CloseSettings ==
  /\ showSettings
  /\ showSettings' = FALSE
  /\ UNCHANGED << apiKey, temperature, localStorage >>
  /\ UNCHANGED << cardVars, inputVars, requestVars >>
  /\ UNCHANGED localVars

\* Mutant: the credential field writes the store on every change.
EditApiKey_Persists(key) ==
  /\ showSettings
  /\ apiKey' = key
  /\ localStorage' = [localStorage EXCEPT !.geminiApiKey = key]
  /\ UNCHANGED << showSettings, temperature >>
  /\ UNCHANGED << cardVars, inputVars, requestVars >>
  /\ UNCHANGED localVars

\* The credential field of the modal: onChange={(e) => setApiKey(e.target.value)}.
EditApiKey(key) ==
  /\ showSettings
  /\ apiKey' = key
  /\ UNCHANGED << showSettings, temperature, localStorage >>
  /\ UNCHANGED << cardVars, inputVars, requestVars >>
  /\ UNCHANGED localVars

\* saveApiKey(key), called by the Save Settings button with the state's apiKey.
saveApiKey(key) ==
  /\ localStorage' = [localStorage EXCEPT !.geminiApiKey = key]
  /\ apiKey' = key
  /\ showSettings' = FALSE
  /\ UNCHANGED temperature
  /\ UNCHANGED << cardVars, inputVars, requestVars >>
  /\ UNCHANGED localVars

SaveSettings ==
  /\ showSettings
  /\ saveApiKey(apiKey)

\* Mutant: the outstanding calls read the temperature when they are served.
handleTemperatureChange_Live(value) ==
  /\ temperature' = value
  /\ localStorage' = [localStorage EXCEPT !.temperature = NumberToString(value)]
  /\ pending' = [i \in 1..Len(pending) |-> [pending[i] EXCEPT !.temperature = value]]
  /\ UNCHANGED << showSettings, apiKey, isGenerating, error >>
  /\ UNCHANGED << cardVars, inputVars >>
  /\ UNCHANGED localVars

\* handleTemperatureChange(value), called by the slider's onChange.
handleTemperatureChange(value) ==
  /\ temperature' = value
  /\ localStorage' = [localStorage EXCEPT !.temperature = NumberToString(value)]
  /\ UNCHANGED << showSettings, apiKey >>
  /\ UNCHANGED << cardVars, inputVars, requestVars >>
  /\ UNCHANGED localVars

(***************************************************************************)
(* The controls of the left panel.                                         *)
(***************************************************************************)
SetCardType(type) ==
  /\ cardType' = type
  /\ UNCHANGED << inputText, suggestedChanges, cardCountInput, autoCardCount >>
  /\ UNCHANGED << cardVars, settingsVars, requestVars >>
  /\ UNCHANGED localVars

ToggleAutoCardCount ==
  /\ autoCardCount' = ~autoCardCount
  /\ UNCHANGED << cardType, inputText, suggestedChanges, cardCountInput >>
  /\ UNCHANGED << cardVars, settingsVars, requestVars >>
  /\ UNCHANGED localVars

\* The range and number inputs, rendered while autoCardCount is off; the number
\* input keeps a value only when it is within 1..50.
SetCardCountInput(val) ==
  /\ ~autoCardCount
  /\ val >= 1 /\ val <= 50
  /\ cardCountInput' = val
  /\ UNCHANGED << cardType, inputText, suggestedChanges, autoCardCount >>
  /\ UNCHANGED << cardVars, settingsVars, requestVars >>
  /\ UNCHANGED localVars

SetInputText(text) ==
  /\ inputText' = text
  /\ UNCHANGED << cardType, suggestedChanges, cardCountInput, autoCardCount >>
  /\ UNCHANGED << cardVars, settingsVars, requestVars >>
  /\ UNCHANGED localVars

\* The Suggest Changes textarea, rendered when appState is not "initial".
SetSuggestedChanges(text) ==
  /\ appState # "initial"
  /\ suggestedChanges' = text
  /\ UNCHANGED << cardType, inputText, cardCountInput, autoCardCount >>
  /\ UNCHANGED << cardVars, settingsVars, requestVars >>
  /\ UNCHANGED localVars

(***************************************************************************)
(* Generation: handleGenerate up to the await.                             *)
(***************************************************************************)
\* An outstanding call ai.models.generateContent({model, contents, config}):
\* the credential of its GoogleGenAI client and the sampling temperature of
\* its config.  The prompt (contents) goes out with the call; the program
\* never reads it again.
Request(key, temp) ==
  [apiKey |-> key, model |-> "gemini-2.0-flash", temperature |-> temp]

\* Mutant: the Apply button without its disabled attribute.
ApplyDisabled_Never == FALSE

\* disabled={isGenerating || !inputText.trim()} and disabled={isGenerating}
GenerateDisabled == isGenerating \/ Trim(inputText) = <<>>
ApplyDisabled == isGenerating

\* Mutant: the prompt mentions the sampling temperature of the settings.
PromptOf_WithTemperature(isApplyChanges) ==
  GeneratePrompt(inputText, cardType,
                 IF isApplyChanges THEN Some(suggestedChanges) ELSE None,
                 autoCardCount, cardCountInput)
    \o << Section("TEMPERATURE", <<>>, temperature) >>

\* The prompt handleGenerate(isApplyChanges) builds from the state.
PromptOf(isApplyChanges) ==
  GeneratePrompt(inputText, cardType,
                 IF isApplyChanges THEN Some(suggestedChanges) ELSE None,
                 autoCardCount, cardCountInput)

\* Mutant: handleGenerate without the check of the credential.
handleGenerate_NoKeyCheck(isApplyChanges) ==
  /\ isGenerating' = TRUE
  /\ error' = Null
  /\ pending' = Append(pending, Request(apiKey, temperature))
  /\ UNCHANGED << cardVars, inputVars, settingsVars >>

handleGenerate(isApplyChanges) ==
  IF apiKey = ""
  THEN /\ error' = MissingKeyMessage
       /\ showSettings' = TRUE
       /\ UNCHANGED << isGenerating, pending, apiKey, temperature, localStorage >>
       /\ UNCHANGED << cardVars, inputVars >>
  ELSE /\ isGenerating' = TRUE
       /\ error' = Null
       /\ pending' = Append(pending, Request(apiKey, temperature))
       /\ UNCHANGED << cardVars, inputVars, settingsVars >>

\* The Generate button, rendered when appState is "initial".
ClickGenerate ==
  /\ appState = "initial"
  /\ ~GenerateDisabled
  /\ handleGenerate(FALSE)
  /\ UNCHANGED localVars

\* The Apply button, rendered when appState is not "initial".
ClickApply ==
  /\ appState # "initial"
  /\ ~ApplyDisabled
  /\ handleGenerate(TRUE)
  /\ UNCHANGED localVars

(***************************************************************************)
(* Generation: handleGenerate after the await.                             *)
(***************************************************************************)
RemoveAt(s, i) == SubSeq(s, 1, i - 1) \o SubSeq(s, i + 1, Len(s))

\* Mutant: the cards of the reply are appended to the cards already there.
OnResponse_Append(response) ==
  LET r == ExtractCards(response)
  IN  IF r.outcome = "success"
      THEN [generatedCards |-> generatedCards \o r.cards, currentCardIndex |-> 0,
            appState |-> "generated", error |-> error, isGenerating |-> FALSE]
      ELSE [generatedCards |-> generatedCards, currentCardIndex |-> currentCardIndex,
            appState |-> appState, error |-> ParseFailedMessage, isGenerating |-> FALSE]

\* Mutant: setGeneratedCards(data.cards || []) runs before the container check.
OnResponse_StoreBeforeCheck(response) ==
  LET r == ExtractCards(response)
  IN  IF r.outcome = "success"
      THEN [generatedCards |-> r.cards, currentCardIndex |-> 0,
            appState |-> "generated", error |-> error, isGenerating |-> FALSE]
      ELSE [generatedCards |-> IF r.outcome = "SchemaError" THEN <<>> ELSE generatedCards,
            currentCardIndex |-> currentCardIndex,
            appState |-> appState, error |-> ParseFailedMessage, isGenerating |-> FALSE]

\* Mutant: a reply that arrives after the source text was emptied is dropped.
OnResponse_DropIfStale(response) ==
  LET r == ExtractCards(response)
  IN  IF inputText = <<>>
      THEN [generatedCards |-> generatedCards, currentCardIndex |-> currentCardIndex,
            appState |-> appState, error |-> error, isGenerating |-> FALSE]
      ELSE IF r.outcome = "success"
      THEN [generatedCards |-> r.cards, currentCardIndex |-> 0,
            appState |-> "generated", error |-> error, isGenerating |-> FALSE]
      ELSE [generatedCards |-> generatedCards, currentCardIndex |-> currentCardIndex,
            appState |-> appState, error |-> ParseFailedMessage, isGenerating |-> FALSE]

\* Mutant: the cursor is not reset when the cards are replaced.
OnResponse_KeepIndex(response) ==
  LET r == ExtractCards(response)
  IN  IF r.outcome = "success"
      THEN [generatedCards |-> r.cards, currentCardIndex |-> currentCardIndex,
            appState |-> "generated", error |-> error, isGenerating |-> FALSE]
      ELSE [generatedCards |-> generatedCards, currentCardIndex |-> currentCardIndex,
            appState |-> appState, error |-> ParseFailedMessage, isGenerating |-> FALSE]

\* Mutant: the inner catch passes on the message of the error it caught.
OnResponse_DistinctMessages(response) ==
  LET r == ExtractCards(response)
  IN  IF r.outcome = "success"
      THEN [generatedCards |-> r.cards, currentCardIndex |-> 0,
            appState |-> "generated", error |-> error, isGenerating |-> FALSE]
      ELSE [generatedCards |-> generatedCards, currentCardIndex |-> currentCardIndex,
            appState |-> appState,
            error |-> IF r.outcome = "SchemaError" THEN "Invalid response format"
                      ELSE ParseFailedMessage,
            isGenerating |-> FALSE]

\* Mutant: setAppState("generated") runs whatever the reply holds.
OnResponse_GeneratedOnFailure(response) ==
  LET r == ExtractCards(response)
  IN  IF r.outcome = "success"
      THEN [generatedCards |-> r.cards, currentCardIndex |-> 0,
            appState |-> "generated", error |-> error, isGenerating |-> FALSE]
      ELSE [generatedCards |-> generatedCards, currentCardIndex |-> currentCardIndex,
            appState |-> "generated", error |-> ParseFailedMessage, isGenerating |-> FALSE]

\* The state the continuation leaves when the call resolves with a text: the
\* inner try and its catch, the outer catch, and finally.
OnResponse(response) ==
  LET r == ExtractCards(response)
  IN  IF r.outcome = "success"
      THEN [generatedCards |-> r.cards, currentCardIndex |-> 0,
            appState |-> "generated", error |-> error, isGenerating |-> FALSE]
      ELSE [generatedCards |-> generatedCards, currentCardIndex |-> currentCardIndex,
            appState |-> appState, error |-> ParseFailedMessage, isGenerating |-> FALSE]

\* Mutant: setIsGenerating(false) at the end of the try block, not in finally.
OnRejection_NoFinally(settlement) ==
  [generatedCards |-> generatedCards, currentCardIndex |-> currentCardIndex,
   appState |-> appState,
   error |-> IF settlement.kind = "rejectError" THEN settlement.message
             ELSE GenerateFailedMessage,
   isGenerating |-> isGenerating]

\* The state the continuation leaves when the call rejects: the outer catch,
\* e instanceof Error ? e.message : "Failed to generate cards", and finally.
OnRejection(settlement) ==
  [generatedCards |-> generatedCards, currentCardIndex |-> currentCardIndex,
   appState |-> appState,
   error |-> IF settlement.kind = "rejectError" THEN settlement.message
             ELSE GenerateFailedMessage,
   isGenerating |-> FALSE]

\* Mutant: a call that was rejected is made again.
GenerateContentSettles_Retry(i, settlement) ==
  /\ i \in 1..Len(pending)
  /\ pending' = IF settlement.kind = "resolve" THEN RemoveAt(pending, i) ELSE pending
  /\ LET after == IF settlement.kind = "resolve"
                  THEN OnResponse(settlement.text)
                  ELSE OnRejection(settlement)
     IN  /\ generatedCards' = after.generatedCards
         /\ currentCardIndex' = after.currentCardIndex
         /\ appState' = after.appState
         /\ error' = after.error
         /\ isGenerating' = after.isGenerating
  /\ UNCHANGED << inputVars, settingsVars >>
  /\ UNCHANGED localVars

\* The i-th outstanding call settles and the rest of handleGenerate runs.
GenerateContentSettles(i, settlement) ==
  /\ i \in 1..Len(pending)
  /\ pending' = RemoveAt(pending, i)
  /\ LET after == IF settlement.kind = "resolve"
                  THEN OnResponse(settlement.text)
                  ELSE OnRejection(settlement)
     IN  /\ generatedCards' = after.generatedCards
         /\ currentCardIndex' = after.currentCardIndex
         /\ appState' = after.appState
         /\ error' = after.error
         /\ isGenerating' = after.isGenerating
  /\ UNCHANGED << inputVars, settingsVars >>
  /\ UNCHANGED localVars

Settle ==
  \E i \in 1..Len(pending), settlement \in Settlements : GenerateContentSettles(i, settlement)

(***************************************************************************)
(* The right panel: export, restart, navigation.                           *)
(***************************************************************************)
\* Mutant: the Download CSV button of the first screen is not disabled.
downloadCSV_Ungated ==
  /\ appState' = "downloaded"
  /\ UNCHANGED << generatedCards, currentCardIndex >>
  /\ UNCHANGED << inputVars, settingsVars, requestVars >>
  /\ UNCHANGED localVars

\* The Download CSV and Again buttons, rendered when appState is "generated" or
\* "downloaded"; the document goes to the file-save facility.
downloadCSV ==
  /\ appState \in {"generated", "downloaded"}
  /\ appState' = "downloaded"
  /\ UNCHANGED << generatedCards, currentCardIndex >>
  /\ UNCHANGED << inputVars, settingsVars, requestVars >>
  /\ UNCHANGED localVars

\* Mutant: Restart leaves the revision instruction in place.
handleRestart_KeepsChanges ==
  /\ appState # "initial"
  /\ generatedCards' = <<>>
  /\ currentCardIndex' = 0
  /\ appState' = "initial"
  /\ inputText' = <<>>
  /\ error' = Null
  /\ UNCHANGED << cardType, suggestedChanges, cardCountInput, autoCardCount >>
  /\ UNCHANGED << isGenerating, pending, settingsVars >>
  /\ UNCHANGED localVars

\* The Restart buttons, rendered when appState is not "initial".
handleRestart ==
  /\ appState # "initial"
  /\ generatedCards' = <<>>
  /\ currentCardIndex' = 0
  /\ appState' = "initial"
  /\ inputText' = <<>>
  /\ suggestedChanges' = <<>>
  /\ error' = Null
  /\ UNCHANGED << cardType, cardCountInput, autoCardCount >>
  /\ UNCHANGED << isGenerating, pending, settingsVars >>
  /\ UNCHANGED localVars

\* const currentCard = generatedCards[currentCardIndex]; the card, the dots
\* and the Prev/Next buttons are rendered when
\* generatedCards.length > 0 && currentCard.
CardShown ==
  /\ Len(generatedCards) > 0
  /\ currentCardIndex \in 0..(Len(generatedCards) - 1)

\* Mutant: the updater without Math.min and Math.max.
NavigateIndex_NoClamp(length, prev, direction) ==
  IF direction > 0 THEN prev + 1 ELSE prev - 1

\* The updater of navigateCard: Math.min(length - 1, prev + 1) or
\* Math.max(0, prev - 1).
NavigateIndex(length, prev, direction) ==
  IF direction > 0
  THEN (IF length - 1 < prev + 1 THEN length - 1 ELSE prev + 1)
  ELSE (IF 0 > prev - 1 THEN 0 ELSE prev - 1)

navigateCard(direction) ==
  /\ currentCardIndex' = NavigateIndex(Len(generatedCards), currentCardIndex, direction)
  /\ UNCHANGED << generatedCards, appState >>
  /\ UNCHANGED << inputVars, settingsVars, requestVars >>
  /\ UNCHANGED localVars

\* disabled={currentCardIndex === 0}
PrevDisabled == currentCardIndex = 0
\* disabled={currentCardIndex === generatedCards.length - 1}
NextDisabled == currentCardIndex = Len(generatedCards) - 1

ClickPrev == CardShown /\ ~PrevDisabled /\ navigateCard(-1)
ClickNext == CardShown /\ ~NextDisabled /\ navigateCard(1)

\* One of the dots under the card, one per card: setCurrentCardIndex(idx).
ClickDot(idx) ==
  /\ CardShown
  /\ idx \in 0..(Len(generatedCards) - 1)
  /\ currentCardIndex' = idx
  /\ UNCHANGED << generatedCards, appState >>
  /\ UNCHANGED << inputVars, settingsVars, requestVars >>
  /\ UNCHANGED localVars

(***************************************************************************)
(* The specification: any interleaving of the user's actions and of the    *)
(* service's replies.                                                      *)
(***************************************************************************)
Next ==
  \/ OpenSettings
  \/ CloseSettings
  \/ \E key \in ApiKeys : EditApiKey(key)
  \/ SaveSettings
  \/ \E value \in TemperatureValues : handleTemperatureChange(value)
  \/ \E type \in CardTypes : SetCardType(type)
  \/ ToggleAutoCardCount
  \/ \E val \in CardCounts : SetCardCountInput(val)
  \/ \E text \in Texts : SetInputText(text)
  \/ \E text \in Changes : SetSuggestedChanges(text)
  \/ ClickGenerate
  \/ ClickApply
  \/ Settle
  \/ downloadCSV
  \/ handleRestart
  \/ ClickPrev
  \/ ClickNext
  \/ \E idx \in 0..(MaxCards - 1) : ClickDot(idx)

Spec == Init /\ [][Next]_vars

\* The service replies or fails to every call: a call that is outstanding
\* settles.
FairSpec == Spec /\ WF_vars(Settle)

(***************************************************************************)
(* Navigation on its own: from the states a successful generation leaves   *)
(* (a card array with the cursor on its first card), navigateCard runs     *)
(* with either direction at every cursor position, the ends included,      *)
(* where the buttons' disabled attribute keeps the user from calling it.   *)
(***************************************************************************)
NavInit ==
  /\ cardType \in CardTypes
  /\ inputText \in Texts
  /\ suggestedChanges \in Changes
  /\ generatedCards \in CardArrays \ {<<>>}
  /\ currentCardIndex = 0
  /\ appState = "generated"
  /\ cardCountInput = DefaultCardCount
  /\ autoCardCount \in BOOLEAN
  /\ showSettings = FALSE
  /\ apiKey = "k1"
  /\ temperature \in TemperatureValues
  /\ localStorage = [geminiApiKey |-> apiKey, temperature |-> NumberToString(temperature)]
  /\ isGenerating = FALSE
  /\ error = Null
  /\ pending = <<>>
  /\ rawResponse = <<>>
  /\ extracted = NotExtracted
  /\ prompts = <<>>
  /\ csv = <<>>

NavNext == \E direction \in {-1, 1} : navigateCard(direction)

NavSpec == NavInit /\ [][NavNext]_vars

(***************************************************************************)
(* The reply parser on its own: the inner try block of handleGenerate      *)
(* applied to one reply, over replies in more layouts than the service of  *)
(* the application specification sends.                                    *)
(***************************************************************************)
\* The state of App after it has mounted over an empty store.
Mounted ==
  /\ cardType = "basic"
  /\ inputText = <<>>
  /\ suggestedChanges = <<>>
  /\ generatedCards = <<>>
  /\ currentCardIndex = 0
  /\ appState = "initial"
  /\ cardCountInput = DefaultCardCount
  /\ autoCardCount = FALSE
  /\ showSettings = FALSE
  /\ localStorage = [geminiApiKey |-> Null, temperature |-> Null]
  /\ apiKey = ""
  /\ temperature = DefaultTemperature
  /\ isGenerating = FALSE
  /\ error = Null
  /\ pending = <<>>

\* The JSON values a reply can carry.
ParseBodies ==
  ReplyBodies \cup {JsonCardsFalsy, JsonNumber}

\* The layouts of a reply around a JSON value b.  Line by line: bare, with
\* blanks around it; in a fence tagged json on lines of its own, with blanks
\* inside, with blanks around, with prose before; in a fence without tag, on
\* lines of its own or not.
LineLayouts(b) ==
  { Bare(b),
    <<SP, NL>> \o Bare(b) \o <<NL, SP>>,
    FencedJson(b),
    <<FENCE, Word("json"), NL, SP, Body(b), SP, NL, NL, FENCE>>,
    <<NL, SP>> \o FencedJson(b) \o <<SP, NL>>,
    <<Word("Here"), NL>> \o FencedJson(b),
    Fenced(b),
    <<FENCE, Body(b), FENCE>>,
    <<SP>> \o Fenced(b) \o <<NL>> }

\* In a fence with another tag; in a fence tagged json with a blank in place
\* of the newline after the tag, or with no newline before the closing fence.
TagLayouts(b) ==
  { <<FENCE, Word("js"), NL, Body(b), NL, FENCE>>,
    <<FENCE, Word("json"), SP, Body(b), NL, FENCE>>,
    <<FENCE, Word("json"), NL, Body(b), FENCE>> }

Layouts(b) == LineLayouts(b) \cup TagLayouts(b)

ParseReplies ==
  UNION {Layouts(b) : b \in ParseBodies}
    \cup {Prose, <<>>, <<SP>>, <<FENCE, Word("json"), NL, NL, FENCE>>, <<FENCE, FENCE>>,
          <<FENCE, Word("json"), NL>> \o Prose \o <<NL, FENCE>>}

ParseInit ==
  /\ Mounted
  /\ rawResponse \in ParseReplies
  /\ extracted = NotExtracted
  /\ prompts = <<>>
  /\ csv = <<>>

\* const response = result.text ?? ""; then the match, JSON.parse and the
\* check of data.cards.
ParseReply ==
  /\ extracted = NotExtracted
  /\ extracted' = ExtractCards(rawResponse)
  /\ UNCHANGED << cardVars, inputVars, settingsVars, requestVars >>
  /\ UNCHANGED << rawResponse, prompts, csv >>

ParseNext == ParseReply

ParseSpec == ParseInit /\ [][ParseNext]_vars

(***************************************************************************)
(* The prompt builder on its own: generatePrompt called as handleGenerate  *)
(* calls it, from any inputs, the user changing the inputs and the         *)
(* temperature between the calls.  prompts keeps the last two calls.       *)
(***************************************************************************)
\* Positions of the count slider for the prompt builder.
PromptCounts == {5, 6}

PromptInit ==
  /\ cardType \in CardTypes
  /\ inputText \in Texts
  /\ suggestedChanges \in Changes
  /\ generatedCards = << BasicCard >>
  /\ currentCardIndex = 0
  /\ appState = "generated"
  /\ cardCountInput \in PromptCounts
  /\ autoCardCount \in BOOLEAN
  /\ showSettings = FALSE
  /\ apiKey = "k1"
  /\ temperature \in TemperatureValues
  /\ localStorage = [geminiApiKey |-> apiKey, temperature |-> NumberToString(temperature)]
  /\ isGenerating = FALSE
  /\ error = Null
  /\ pending = <<>>
  /\ rawResponse = <<>>
  /\ extracted = NotExtracted
  /\ prompts = <<>>
  /\ csv = <<>>

\* One call of generatePrompt: its arguments, the two values it reads from
\* the component's state, and the string it returns.
PromptCall(isApplyChanges) ==
  [text |-> inputText,
   type |-> cardType,
   changes |-> IF isApplyChanges THEN Some(suggestedChanges) ELSE None,
   auto |-> autoCardCount,
   count |-> cardCountInput,
   prompt |-> PromptOf(isApplyChanges)]

\* const prompt = generatePrompt(inputText, cardType,
\*                               isApplyChanges ? suggestedChanges : undefined)
BuildPrompt(isApplyChanges) ==
  /\ prompts' = IF Len(prompts) < 2
                THEN Append(prompts, PromptCall(isApplyChanges))
                ELSE << prompts[2], PromptCall(isApplyChanges) >>
  /\ UNCHANGED << cardVars, inputVars, settingsVars, requestVars >>
  /\ UNCHANGED << rawResponse, extracted, csv >>

PromptNext ==
  \/ \E isApplyChanges \in BOOLEAN : BuildPrompt(isApplyChanges)
  \/ \E type \in CardTypes : SetCardType(type)
  \/ \E text \in Texts : SetInputText(text)
  \/ \E text \in Changes : SetSuggestedChanges(text)
  \/ ToggleAutoCardCount
  \/ \E val \in PromptCounts : SetCardCountInput(val)
  \/ \E value \in TemperatureValues : handleTemperatureChange(value)

PromptSpec == PromptInit /\ [][PromptNext]_vars

(***************************************************************************)
(* The export on its own: downloadCSV with the document it builds, over    *)
(* card arrays of either kind and of both, the user switching the card     *)
(* kind between exports.  The document is a sequence of pieces: the header *)
(* text, newlines, and one piece per card with its quoted fields.          *)
(***************************************************************************)
Piece(kind, text, fields) == [piece |-> kind, text |-> text, fields |-> fields]
HeaderPiece(text) == Piece("header", text, <<>>)
NewlinePiece == Piece("newline", "", <<>>)

\* A template literal: a double quote, the value as text (undefined prints
\* as the word undefined), a double quote.
Quoted(value) == [quoted |-> value]

\* Mutant: the row of a Basic card holds the front only.
CsvRow_FrontOnly(type, card) ==
  IF type = "basic"
  THEN Piece("row", ",", << Quoted(card.front) >>)
  ELSE Piece("row", ",", << Quoted(card.text) >>)

\* The callback of generatedCards.map: the fields joined by a comma.
CsvRow(type, card) ==
  IF type = "basic"
  THEN Piece("row", ",", << Quoted(card.front), Quoted(card.back) >>)
  ELSE Piece("row", ",", << Quoted(card.text) >>)

\* Array.prototype.join with a newline.
RECURSIVE JoinLines(_)
JoinLines(rows) ==
  IF Len(rows) = 0 THEN <<>>
  ELSE IF Len(rows) = 1 THEN rows
  ELSE << rows[1], NewlinePiece >> \o JoinLines(Tail(rows))

\* let csv: the header, a newline, the rows joined.
CsvDocument(type, cards) ==
  << HeaderPiece(IF type = "basic" THEN "front,back" ELSE "text"), NewlinePiece >>
    \o JoinLines([i \in 1..Len(cards) |-> CsvRow(type, cards[i])])

\* Cards of either kind, two of each.
ExportCardValues ==
  CardValues \cup {[front |-> "Q2", back |-> "A2", text |-> Undefined],
                   [front |-> Undefined, back |-> Undefined, text |-> "T2"]}

ExportInit ==
  /\ cardType \in CardTypes
  /\ inputText = << Word("a") >>
  /\ suggestedChanges = <<>>
  /\ generatedCards \in SeqsUpTo(ExportCardValues, MaxCards)
  /\ currentCardIndex = 0
  /\ appState = "generated"
  /\ cardCountInput = DefaultCardCount
  /\ autoCardCount = FALSE
  /\ showSettings = FALSE
  /\ apiKey = "k1"
  /\ temperature = DefaultTemperature
  /\ localStorage = [geminiApiKey |-> apiKey, temperature |-> Null]
  /\ isGenerating = FALSE
  /\ error = Null
  /\ pending = <<>>
  /\ rawResponse = <<>>
  /\ extracted = NotExtracted
  /\ prompts = <<>>
  /\ csv = <<>>

\* downloadCSV with its document: csv goes into the Blob that is saved as
\* anki-cards.csv, then setAppState("downloaded").
SaveCSV ==
  /\ appState \in {"generated", "downloaded"}
  /\ csv' = CsvDocument(cardType, generatedCards)
  /\ appState' = "downloaded"
  /\ UNCHANGED << generatedCards, currentCardIndex >>
  /\ UNCHANGED << inputVars, settingsVars, requestVars >>
  /\ UNCHANGED << rawResponse, extracted, prompts >>

ExportNext ==
  \/ SaveCSV
  \/ \E type \in CardTypes : SetCardType(type)

ExportSpec == ExportInit /\ [][ExportNext]_vars

(***************************************************************************)
(* The dispatch on its own: handleGenerate with the prompt it sends, the   *)
(* user editing the source material, the revision instruction and the card *)
(* kind between the clicks, over source texts that are empty, blank or     *)
(* not.  prompts holds the call of generatePrompt of the last request      *)
(* that went out.                                                          *)
(***************************************************************************)
\* What the user can leave in the Source Material textarea.
SourceTexts == Texts \cup {<< SP >>, << NL, SP >>, << SP, Word("a"), NL >>}

\* App after it has mounted, over a store with or without a credential.
DispatchInit ==
  /\ cardType = "basic"
  /\ inputText = <<>>
  /\ suggestedChanges = <<>>
  /\ generatedCards = <<>>
  /\ currentCardIndex = 0
  /\ appState = "initial"
  /\ cardCountInput = DefaultCardCount
  /\ autoCardCount = FALSE
  /\ showSettings = FALSE
  /\ localStorage \in [geminiApiKey : {Null, "k1"}, temperature : {Null}]
  /\ apiKey = IF localStorage.geminiApiKey \in {Null, ""} THEN "" ELSE localStorage.geminiApiKey
  /\ temperature = DefaultTemperature
  /\ isGenerating = FALSE
  /\ error = Null
  /\ pending = <<>>
  /\ rawResponse = <<>>
  /\ extracted = NotExtracted
  /\ prompts = <<>>
  /\ csv = <<>>

\* A click on Generate (isApplyChanges false) or on Apply (true): the button
\* is rendered and not disabled, and handleGenerate runs up to the await;
\* past the credential check it builds the prompt that is the contents of
\* the call.
Dispatch(isApplyChanges) ==
  /\ IF isApplyChanges
     THEN appState # "initial" /\ ~ApplyDisabled
     ELSE appState = "initial" /\ ~GenerateDisabled
  /\ handleGenerate(isApplyChanges)
  /\ prompts' = IF apiKey = "" THEN prompts ELSE << PromptCall(isApplyChanges) >>
  /\ UNCHANGED << rawResponse, extracted, csv >>

DispatchNext ==
  \/ \E isApplyChanges \in BOOLEAN : Dispatch(isApplyChanges)
  \/ \E text \in SourceTexts : SetInputText(text)
  \/ \E text \in Changes : SetSuggestedChanges(text)
  \/ \E type \in CardTypes : SetCardType(type)
  \/ CloseSettings
  \/ Settle
  \/ downloadCSV
  \/ handleRestart

DispatchSpec == DispatchInit /\ [][DispatchNext]_vars

(***************************************************************************)
(* Properties.                                                             *)
(***************************************************************************)
\* The replies that carry a card array c: bare, in a json fence, in a plain
\* fence.
SuccessfulReplies(c) ==
  {Bare(JsonCards(c)), FencedJson(JsonCards(c)), Fenced(JsonCards(c))}

SuccessfulSettlements(c) ==
  {s \in Settlements : s.kind = "resolve" /\ s.text \in SuccessfulReplies(c)}

\* The settlements of a failed attempt: a rejection of the call, or a reply
\* that carries no card array.
FailedSettlements ==
  Settlements \ UNION {SuccessfulSettlements(c) : c \in CardArrays}

FailureMessages == {ParseFailedMessage, GenerateFailedMessage} \cup TransportMessages

\* C1: at most one generation request is in flight at any time, and while
\* one is in flight neither the Generate nor the Apply control accepts a
\* click.
C1_OneRequestInFlight ==
  /\ Len(pending) <= 1
  /\ pending # << >> =>
       /\ ~ ENABLED ClickGenerate
       /\ ~ ENABLED ClickApply

\* A request is in flight and nothing but the in-flight flag holds the
\* control back: cards are shown, the credential is there.
C1_Witness ==
  /\ Len(pending) = 1
  /\ appState = "generated"
  /\ generatedCards # << >>
  /\ apiKey # ""

\* The control of the current screen takes a click.
ControlEnabled ==
  IF appState = "initial" THEN ~ GenerateDisabled ELSE ~ ApplyDisabled

\* C2 as stated: every request in flight leads to a state where the
\* in-flight flag is false and the triggering control is enabled again.
C2_Original ==
  (pending # << >>) ~> (~ isGenerating /\ ControlEnabled)

\* C2: every request in flight leads to a state where no request is in
\* flight and the in-flight flag is false; the Apply control is then enabled,
\* and the Generate control is enabled unless the source text is blank.
C2_FlagCleared ==
  (pending # << >>) ~>
     /\ pending = << >>
     /\ ~ isGenerating
     /\ ~ ApplyDisabled
     /\ GenerateDisabled <=> (Trim(inputText) = << >>)

\* A failed attempt has settled on the first screen after the text was
\* emptied in flight: the flag is down and Generate is still disabled.
C2_Witness ==
  /\ pending = << >>
  /\ ~ isGenerating
  /\ error \in FailureMessages
  /\ appState = "initial"
  /\ Trim(inputText) = << >>
  /\ GenerateDisabled

\* C3: when an attempt fails (the call is rejected, or the reply carries no
\* card array), the cards, the cursor and the screen are what they were
\* before the attempt settled, an error is set and the in-flight flag is
\* false.
C3_FailureKeepsCards ==
  [][Len(pending') < Len(pending) =>
       \A i \in 1..Len(pending), s \in FailedSettlements :
          GenerateContentSettles(i, s) =>
            /\ generatedCards' = generatedCards
            /\ currentCardIndex' = currentCardIndex
            /\ appState' = appState
            /\ error' \in FailureMessages
            /\ isGenerating' = FALSE]_vars

\* A failed attempt has settled over cards that were exported, with the
\* cursor off the first card.
C3_Witness ==
  /\ pending = << >>
  /\ error \in FailureMessages
  /\ generatedCards # << >>
  /\ currentCardIndex > 0
  /\ appState = "downloaded"

\* C4: a click on Generate or Apply without a credential sends no request,
\* opens the settings, sets the missing-key error and changes nothing else
\* of the cards, the cursor, the screen or the in-flight flag.
C4_MissingCredential ==
  [][(apiKey = "" /\ (ClickGenerate \/ ClickApply)) =>
       /\ pending' = pending
       /\ showSettings' = TRUE
       /\ error' = MissingKeyMessage
       /\ UNCHANGED << generatedCards, currentCardIndex, appState, isGenerating >>
       /\ UNCHANGED << inputVars, apiKey, temperature, localStorage >>]_vars

\* Apply was clicked without a credential over existing cards.
C4_Witness ==
  /\ apiKey = ""
  /\ showSettings
  /\ error = MissingKeyMessage
  /\ generatedCards # << >>
  /\ currentCardIndex > 0
  /\ ~ isGenerating
  /\ pending = << >>

\* C5: when a reply that carries the card array c settles, the cards become
\* exactly c, whatever the cards were, and the cursor is 0 in the same step.
C5_CardsReplaced ==
  [][Len(pending') < Len(pending) =>
       \A i \in 1..Len(pending), c \in CardArrays :
          \A r \in SuccessfulReplies(c) \cap Replies :
             GenerateContentSettles(i, Settlement("resolve", "", r)) =>
               /\ generatedCards' = c
               /\ currentCardIndex' = 0]_vars

\* A reply with two cards has replaced the cards while a revision
\* instruction was there: nothing of the earlier cards is kept.
C5_Witness ==
  /\ pending = << >>
  /\ appState = "generated"
  /\ generatedCards = << ClozeCard, BasicCard >>
  /\ currentCardIndex = 0
  /\ suggestedChanges # << >>
  /\ error = Null

\* What the settlement s leaves: the cards of the reply at cursor 0 on
\* success, an error message on failure.
C6_Applied(s) ==
  IF s \in FailedSettlements
  THEN /\ error' \in FailureMessages
       /\ generatedCards' = generatedCards
  ELSE \E c \in CardArrays :
         /\ s \in SuccessfulSettlements(c)
         /\ generatedCards' = c
         /\ currentCardIndex' = 0
         /\ appState' = "generated"

\* C6: whenever a request settles, whatever the user did since it was sent
\* (the source text, the card kind, the count, the settings, Restart), its
\* outcome is applied: a reply with cards replaces the cards, a failure sets
\* the error message.
C6_AppliedUnconditionally ==
  [][Len(pending') < Len(pending) =>
       \A i \in 1..Len(pending), s \in Settlements :
          GenerateContentSettles(i, s) => C6_Applied(s)]_vars

\* A request is in flight on the first screen with the source text empty, the
\* temperature and the credential no longer those it was sent with: Restart
\* or edits happened in flight.
C6_Witness ==
  /\ pending # << >>
  /\ appState = "initial"
  /\ inputText = << >>
  /\ pending[1].temperature # temperature
  /\ pending[1].apiKey # apiKey

\* C7: a request that is sent carries the credential and the temperature of
\* the state it is sent from, and a step that changes the credential or the
\* temperature changes no request that is in flight.
C7_RequestFixedAtBuild ==
  [][/\ Len(pending') > Len(pending) =>
          /\ pending' = Append(pending, pending'[Len(pending')])
          /\ pending'[Len(pending')].apiKey = apiKey
          /\ pending'[Len(pending')].temperature = temperature
     /\ (apiKey' # apiKey \/ temperature' # temperature
           \/ localStorage' # localStorage) => pending' = pending]_vars

\* The request in flight carries a credential and a temperature that both
\* differ from the current ones: both were edited after it was sent.
C7_Witness ==
  /\ Len(pending) = 1
  /\ pending[1].apiKey = "k1"
  /\ apiKey = ""
  /\ pending[1].temperature # temperature
  /\ localStorage.temperature = NumberToString(temperature)

\* C8 as stated: the cursor is within the cards when there are cards, and is
\* undefined (not a number) when there are none.
C8_Original ==
  /\ generatedCards # << >> => currentCardIndex \in 0..(Len(generatedCards) - 1)
  /\ generatedCards = << >> => currentCardIndex \notin Int

\* C8: the cursor is within the cards when there are cards, and is the
\* number 0 when there are none.
C8_CursorInRange ==
  /\ generatedCards # << >> => currentCardIndex \in 0..(Len(generatedCards) - 1)
  /\ generatedCards = << >> => currentCardIndex = 0

\* A reply with an empty card array was accepted and exported.
C8_Witness ==
  /\ appState = "downloaded"
  /\ generatedCards = << >>
  /\ currentCardIndex = 0

\* C9: navigateCard with "next" adds 1 to the cursor, except at the last
\* card where it leaves it; with "prev" it subtracts 1, except at the first
\* card where it leaves it; the cards are unchanged.
C9_PaginationClamped ==
  [][/\ navigateCard(1) =>
          /\ currentCardIndex' = IF currentCardIndex = Len(generatedCards) - 1
                                 THEN currentCardIndex ELSE currentCardIndex + 1
          /\ generatedCards' = generatedCards
     /\ navigateCard(-1) =>
          /\ currentCardIndex' = IF currentCardIndex = 0
                                 THEN 0 ELSE currentCardIndex - 1
          /\ generatedCards' = generatedCards]_vars

\* The cursor is on the last of several cards, where navigation has taken it.
C9_Witness ==
  /\ Len(generatedCards) >= 2
  /\ currentCardIndex = Len(generatedCards) - 1

\* C10 as stated: after Restart the cards are empty, the cursor is undefined
\* and the revision instruction is cleared.
C10_Original ==
  [][(appState # "initial" /\ appState' = "initial") =>
       /\ generatedCards' = << >>
       /\ currentCardIndex' \notin Int
       /\ suggestedChanges' = << >>]_vars

\* C10: after Restart, from any state, a request in flight or not, the cards
\* are empty, the cursor is the number 0 and the revision instruction is
\* cleared.
C10_RestartClears ==
  [][(appState # "initial" /\ appState' = "initial") =>
       /\ generatedCards' = << >>
       /\ currentCardIndex' = 0
       /\ suggestedChanges' = << >>]_vars

\* Back on the first screen with a request still in flight and the error of
\* an earlier attempt gone: Restart was clicked in flight.
C10_Witness ==
  /\ appState = "initial"
  /\ pending # << >>
  /\ generatedCards = << >>
  /\ currentCardIndex = 0
  /\ suggestedChanges = << >>
  /\ inputText = << >>
  /\ error = Null

\* A text that is one well-formed JSON value, and a JSON value that is an
\* object whose cards field holds an array.
WellFormedJson(t) == Len(t) = 1 /\ t[1].t = "json"
HoldsCardArray(v) == v.kind = "object" /\ v.cardsTag = "array"

\* C11: a reply that, fence stripped and trimmed, is not well-formed JSON
\* fails with ParseError; one that is well-formed JSON but no object with a
\* cards array fails with SchemaError; every other reply succeeds with the
\* array; the parse is decided first.
C11_TwoStages ==
  extracted # NotExtracted =>
    LET t == Trim(JsonStr(rawResponse))
    IN  IF ~ WellFormedJson(t) THEN extracted.outcome = "ParseError"
        ELSE IF ~ HoldsCardArray(t[1].v) THEN extracted.outcome = "SchemaError"
        ELSE extracted.outcome = "success" /\ extracted.cards = t[1].v.items

\* The JSON value null inside a fence was parsed: well-formed, and no object.
C11_Witness ==
  /\ rawResponse = FencedJson(JsonNull)
  /\ extracted.outcome = "SchemaError"

\* The replies that are not well-formed JSON once the fence is stripped, and
\* those that are well-formed JSON without a cards array.
ParseErrorReplies ==
  {r \in Replies : ~ WellFormedJson(Trim(JsonStr(r)))}
SchemaErrorReplies ==
  {r \in Replies \ ParseErrorReplies : ~ HoldsCardArray(Trim(JsonStr(r))[1].v)}

\* C12: when a reply of either kind of failure settles, the error shown is
\* the one fixed message, the same for both kinds and for every reply.
C12_SameMessage ==
  [][Len(pending') < Len(pending) =>
       \A i \in 1..Len(pending), r \in ParseErrorReplies \cup SchemaErrorReplies :
          GenerateContentSettles(i, Settlement("resolve", "", r)) =>
            error' = ParseFailedMessage]_vars

\* A reply that could not be used has settled on the first screen, the
\* source text still there.
C12_Witness ==
  /\ pending = << >>
  /\ ~ isGenerating
  /\ error = ParseFailedMessage
  /\ appState = "initial"
  /\ Trim(inputText) # << >>
  /\ ParseErrorReplies # {}
  /\ SchemaErrorReplies # {}

\* What the parser makes of the JSON value b itself.
BodyResult(b) ==
  IF HoldsCardArray(b) THEN [outcome |-> "success", cards |-> b.items]
  ELSE [outcome |-> "SchemaError", cards |-> << >>]

CountPolicy(call) == IF call.auto THEN "Automatic" ELSE call.count

\* Two calls with the same source text, card kind, count policy and revision
\* instruction.
SameRequest(a, b) ==
  /\ a.text = b.text
  /\ a.type = b.type
  /\ a.changes = b.changes
  /\ a.auto = b.auto
  /\ (~ a.auto => a.count = b.count)

\* C14: two calls of generatePrompt with the same source text, card kind,
\* count policy and revision instruction return the same prompt, whatever
\* else the state holds and whatever was built before.
C14_Deterministic ==
  \A i, j \in 1..Len(prompts) :
     SameRequest(prompts[i], prompts[j]) => prompts[i].prompt = prompts[j].prompt

\* Two calls with the same request, both automatic, were made with
\* different stored counts and different temperatures in the state.
C14_Witness ==
  /\ Len(prompts) = 2
  /\ SameRequest(prompts[1], prompts[2])
  /\ prompts[1].auto
  /\ prompts[1].count # prompts[2].count
  /\ prompts[1].changes = Some(<< Word("harder") >>)
  /\ temperature = 7
  /\ localStorage.temperature = "0.7"

\* The places of the sections named in names within the prompt p, and
\* whether all sections of one group stand before all of another.
Places(p, names) == {i \in 1..Len(p) : p[i].sec \in names}
Before(p, A, B) ==
  /\ Places(p, A) # {}
  /\ Places(p, B) # {}
  /\ \A i \in Places(p, A), j \in Places(p, B) : i < j

RoleSections == {"ROLE", "TASK"}
ContractSections == {"OUTPUT_FORMAT", "SCHEMA_BASIC", "SCHEMA_CLOZE"}
CountSections == {"COUNT_AUTO", "COUNT_EXACT"}
RevisionSections == {"MODIFICATIONS_HEADER", "MODIFICATIONS", "MODIFICATIONS_GUIDE"}
QualitySections == {"RULE_LANGUAGE", "RULE_QUALITY", "RULE_HTML", "RULE_CONTENT"}

\* The revision block is in the prompt exactly when the call passed a
\* revision instruction that is not empty, and the source text is the last
\* section, verbatim.
RevisionAndSource(call) ==
  LET p == call.prompt
  IN  /\ (Places(p, RevisionSections) # {}) <=> Truthy(call.changes)
      /\ Truthy(call.changes) =>
           \E i \in 1..Len(p) : p[i].sec = "MODIFICATIONS" /\ p[i].text = call.changes.text
      /\ p[Len(p)].sec = "SOURCE"
      /\ p[Len(p)].text = call.text
      /\ Places(p, {"SOURCE"}) = {Len(p)}

\* C15 as stated: role, output contract with schema example, count
\* instruction, revision block (when there is a revision instruction),
\* quality rules, source text last.
C15_Original ==
  \A k \in 1..Len(prompts) :
     LET p == prompts[k].prompt
     IN  /\ RevisionAndSource(prompts[k])
         /\ Before(p, RoleSections, ContractSections)
         /\ Before(p, ContractSections, CountSections)
         /\ Truthy(prompts[k].changes) =>
              /\ Before(p, CountSections, RevisionSections)
              /\ Before(p, RevisionSections, QualitySections)
         /\ Before(p, CountSections, QualitySections)
         /\ Before(p, QualitySections, {"SOURCE"})

\* C15: role, revision block (when there is a revision instruction that is
\* not empty), output contract with schema example, count instruction,
\* quality rules, source text last: the revision block stands before the
\* output contract and the count instruction, not after them.
C15_SectionOrder ==
  \A k \in 1..Len(prompts) :
     LET p == prompts[k].prompt
     IN  /\ RevisionAndSource(prompts[k])
         /\ p[1].sec = "ROLE"
         /\ Truthy(prompts[k].changes) =>
              /\ Before(p, RoleSections, RevisionSections)
              /\ Before(p, RevisionSections, ContractSections)
         /\ Before(p, RoleSections, ContractSections)
         /\ Before(p, ContractSections, CountSections)
         /\ Before(p, CountSections, QualitySections)
         /\ Before(p, QualitySections, {"SOURCE"})

\* A prompt with a revision block and one without, the call with an empty
\* revision instruction, have been built.
C15_Witness ==
  /\ Len(prompts) = 2
  /\ prompts[1].changes = Some(<< Word("harder") >>)
  /\ prompts[2].changes = Some(<< >>)
  /\ prompts[1].text # << >>
  /\ Len(prompts[1].prompt) = Len(prompts[2].prompt) + 3

\* C16: with a fixed count n the prompt holds one instruction asking for
\* exactly n cards and no density-based one; with the automatic policy it
\* holds the density-based instruction, no exact-count instruction and no
\* number, and two automatic calls that differ only in the stored count
\* return the same prompt.
C16_CountPolicy ==
  \A k \in 1..Len(prompts) :
     LET call == prompts[k]
         p == call.prompt
     IN  /\ ~ call.auto =>
              /\ Cardinality(Places(p, {"COUNT_EXACT"})) = 1
              /\ \A i \in Places(p, {"COUNT_EXACT"}) : p[i].n = call.count
              /\ Places(p, {"COUNT_AUTO"}) = {}
         /\ call.auto =>
              /\ Cardinality(Places(p, {"COUNT_AUTO"})) = 1
              /\ Places(p, {"COUNT_EXACT"}) = {}
              /\ \A i \in 1..Len(p) : p[i].n = 0
              /\ \A j \in 1..Len(prompts) :
                    (/\ prompts[j].auto
                     /\ prompts[j].text = call.text
                     /\ prompts[j].type = call.type
                     /\ prompts[j].changes = call.changes) => prompts[j].prompt = p

\* A prompt for exactly six cards was built, then one with the automatic
\* policy while six was still the stored count.
C16_Witness ==
  /\ Len(prompts) = 2
  /\ ~ prompts[1].auto
  /\ prompts[1].count = 6
  /\ prompts[2].auto
  /\ prompts[2].count = 6

\* C17: every example object of the prompt has the keys of the call's card
\* kind, front and back for Basic and text for Cloze, and the prompt holds
\* such an example in its output contract.
C17_SchemaMatchesKind ==
  \A k \in 1..Len(prompts) :
     LET call == prompts[k]
         p == call.prompt
         keys == IF call.type = "basic" THEN {"front", "back"} ELSE {"text"}
     IN  /\ \A i \in 1..Len(p) : ExampleKeys(p[i].sec) \in {{}, keys}
         /\ \E i \in Places(p, ContractSections) : ExampleKeys(p[i].sec) = keys

\* A Basic prompt and then a Cloze prompt have been built.
C17_Witness ==
  /\ Len(prompts) = 2
  /\ prompts[1].type = "basic"
  /\ prompts[2].type = "cloze"
  /\ prompts[2].text # << >>

\* The rows of a document: what stands between its newlines, without the
\* empty rest after a newline that ends the document.
RECURSIVE Rows(_)
Rows(doc) ==
  LET breaks == {i \in 1..Len(doc) : doc[i] = NewlinePiece}
  IN  IF breaks = {} THEN (IF doc = << >> THEN << >> ELSE << doc >>)
      ELSE LET i == Min(breaks)
           IN  << SubSeq(doc, 1, i - 1) >> \o Rows(SubSeq(doc, i + 1, Len(doc)))

\* C18: the document an export writes has one row more than there are
\* cards: the header of the card kind (front,back or text), then for each
\* card in order one row of its fields in double quotes (front and back, or
\* text); with no cards it is the header and nothing after it.
C18_ExportRows ==
  [][csv' # csv =>
       LET rows == Rows(csv')
           k == Len(generatedCards)
       IN  /\ Len(rows) = k + 1
           /\ rows[1] = << HeaderPiece(IF cardType = "basic" THEN "front,back" ELSE "text") >>
           /\ \A i \in 1..k :
                /\ Len(rows[i + 1]) = 1
                /\ rows[i + 1][1].piece = "row"
                /\ rows[i + 1][1].fields =
                     IF cardType = "basic"
                     THEN << Quoted(generatedCards[i].front), Quoted(generatedCards[i].back) >>
                     ELSE << Quoted(generatedCards[i].text) >>
           /\ k = 0 => Len(csv') = 2]_vars

\* Two different Basic cards were exported under the Basic header.
C18_Witness ==
  /\ appState = "downloaded"
  /\ Len(generatedCards) = 2
  /\ generatedCards[1] # generatedCards[2]
  /\ generatedCards[1].text = Undefined
  /\ generatedCards[2].text = Undefined
  /\ Len(csv) = 5
  /\ csv[1] = HeaderPiece("front,back")

\* C19 as stated: every step that changes the credential or the temperature
\* in memory leaves the store holding the new value.
C19_Original ==
  [][/\ apiKey' # apiKey => localStorage'.geminiApiKey = apiKey'
     /\ temperature' # temperature =>
          localStorage'.temperature = NumberToString(temperature')]_vars

\* C19: every step that changes the temperature in memory leaves the store
\* holding the new value; a step that changes the credential in memory
\* leaves the store as it was, and the store takes the credential only when
\* Save Settings is clicked, which closes the modal.
C19_StoreWrites ==
  [][/\ temperature' # temperature =>
          /\ localStorage'.temperature = NumberToString(temperature')
          /\ localStorage'.geminiApiKey = localStorage.geminiApiKey
     /\ apiKey' # apiKey => localStorage' = localStorage
     /\ localStorage'.geminiApiKey # localStorage.geminiApiKey =>
          /\ showSettings /\ ~ showSettings'
          /\ apiKey' = apiKey
          /\ localStorage'.geminiApiKey = apiKey]_vars

\* The modal is open, the credential typed into it is not the one in the
\* store, and the temperature of the store is the one in memory although it
\* is not the default.
C19_Witness ==
  /\ showSettings
  /\ apiKey = "k1"
  /\ localStorage.geminiApiKey = ""
  /\ temperature = 7
  /\ localStorage.temperature = NumberToString(7)

\* C20: a click on Generate or Apply that passes the credential check makes
\* exactly one call; no other step makes a call; and when a call fails, in
\* whatever way, it is gone and no call is made in its place.
C20_OneCallPerTrigger ==
  [][/\ ((ClickGenerate \/ ClickApply) /\ apiKey # "") =>
          /\ Len(pending') = Len(pending) + 1
          /\ SubSeq(pending', 1, Len(pending)) = pending
     /\ Len(pending') > Len(pending) => (ClickGenerate \/ ClickApply)
     /\ (pending # << >> /\ error' # error /\ error' \in FailureMessages) =>
          \A i \in 1..Len(pending), s \in FailedSettlements :
             GenerateContentSettles(i, s) => pending' = RemoveAt(pending, i)]_vars

\* The call was rejected with cards on the screen: the error is shown and
\* no call is in flight.
C20_Witness ==
  /\ pending = << >>
  /\ ~ isGenerating
  /\ error \in TransportMessages
  /\ appState = "generated"
  /\ generatedCards # << >>

\* The source text a call of generatePrompt put into its prompt.
SourceOf(call) ==
  LET p == call.prompt
      i == CHOOSE i \in 1..Len(p) : p[i].sec = "SOURCE"
  IN  p[i].text

\* C21: every request that is dispatched carries a source text that is not
\* empty and not blank, whether Generate or Apply dispatched it, whatever
\* the user has typed into the source material before.
C21_Original ==
  \A i \in 1..Len(prompts) : Trim(SourceOf(prompts[i])) # <<>>

\* A reply with cards has just arrived: the continuation of a call ran and
\* left a card set that is not empty and no error.
CardsArrive ==
  /\ Len(pending') < Len(pending)
  /\ error' = Null
  /\ appState' = "generated"
  /\ generatedCards' # <<>>

\* C22: the card kind the card set is displayed and exported with (cardType,
\* read by the card view and by downloadCSV) is the card kind of the request
\* that produced the card set: it is that kind when the cards arrive, even
\* if the selector was switched while the request was in flight, and it
\* stays that kind for as long as the card set is on the screen.
C22_Original ==
  [][/\ CardsArrive => cardType' = prompts[Len(prompts)].type
     /\ (generatedCards # <<>> /\ generatedCards' = generatedCards /\ pending' = pending)
          => cardType' = cardType]_vars

\* The step is the continuation of a call whose reply carried a card array.
GenerationSucceeds ==
  \E i \in 1..Len(pending), c \in CardArrays :
     \E s \in SuccessfulSettlements(c) \cap Settlements : GenerateContentSettles(i, s)

\* C23: while appState is "initial" there are no cards, the cursor is 0 and
\* the revision instruction is empty; appState leaves "initial" only in the
\* step in which a reply with a card array is applied, and comes back to it
\* only through Restart, a request being in flight or not.
C23_InitialState ==
  /\ [](appState = "initial" =>
          /\ generatedCards = <<>>
          /\ currentCardIndex = 0
          /\ suggestedChanges = <<>>)
  /\ [][/\ (appState = "initial" /\ appState' # "initial") =>
             (appState' = "generated" /\ GenerationSucceeds)
        /\ (appState # "initial" /\ appState' = "initial") => handleRestart]_vars

\* Restart was pressed while a request was in flight: the first screen with
\* nothing on it, the request still outstanding, and a revision instruction
\* of the screen before gone with the cards.
C23_Witness ==
  /\ appState = "initial"
  /\ pending # <<>>
  /\ isGenerating
  /\ inputText = <<>>
  /\ generatedCards = <<>>
  /\ suggestedChanges = <<>>

\* C24: the export cannot be performed while appState is "initial"; a step
\* that performs it starts in "generated" or "downloaded", ends in
\* "downloaded" and changes neither the cards, the cursor, the source text,
\* the revision instruction, the error nor the in-flight flag; no other step
\* enters "downloaded"; and a reply with a card array that is applied in
\* "downloaded", as after Apply, brings appState back to "generated".
C24_ExportGated ==
  /\ [](appState = "initial" => ~ENABLED downloadCSV)
  /\ [][/\ downloadCSV =>
             /\ appState \in {"generated", "downloaded"}
             /\ appState' = "downloaded"
             /\ UNCHANGED << generatedCards, currentCardIndex, inputText,
                             suggestedChanges, error, isGenerating >>
        /\ (appState # "downloaded" /\ appState' = "downloaded") => downloadCSV
        /\ (appState = "downloaded" /\ Len(pending') < Len(pending) /\ GenerationSucceeds)
             => appState' = "generated"]_vars

\* The cards were exported and Apply was clicked with a revision
\* instruction: its request is in flight over the exported cards.
C24_Witness ==
  /\ appState = "downloaded"
  /\ generatedCards # <<>>
  /\ suggestedChanges # <<>>
  /\ isGenerating
  /\ pending # <<>>
  /\ error = Null

====
